---- MODULE Spec2Model ----
(***************************************************************************)
(* The AI service of the health-care backend: retryWithBackoff and the     *)
(* operations built on it (analyzeHealthReport, predictSymptomsFromText,   *)
(* generateHealthTips).  Two versions of the service are in the            *)
(* repository: the current one (five attempts, jitter, primary/fallback    *)
(* model for symptom prediction) and the legacy one (three attempts, no    *)
(* jitter, no fallback).  The variable impl says which one runs.           *)
(*                                                                         *)
(* One behaviour is a sequence of operations, each from its call to its    *)
(* return or throw.  An action is the code that runs between two           *)
(* suspension points (await fn(), await setTimeout).                       *)
(***************************************************************************)
EXTENDS Integers, Sequences, FiniteSets, TLC

\* How many operations one behaviour runs, one after the other.
MaxRuns == 2

-----------------------------------------------------------------------------
(* JavaScript values.  A string is its identity: 0 is the empty string "",  *)
(* any other number a non-empty text.  An array is its length.             *)

Undef == [t |-> "undefined", v |-> 0]
Null == [t |-> "null", v |-> 0]
Str(n) == [t |-> "string", v |-> n]
Num(n) == [t |-> "number", v |-> n]
Arr(n) == [t |-> "array", v |-> n]

\* ToBoolean: undefined, null, "" and 0 are falsy; arrays (also empty) are
\* truthy.
Truthy(x) ==
    CASE x.t = "undefined" -> FALSE
      [] x.t = "null" -> FALSE
      [] x.t = "string" -> x.v # 0
      [] x.t = "number" -> x.v # 0
      [] OTHER -> TRUE

-----------------------------------------------------------------------------
(* Errors.  status 0 is an error object without a status property.  An     *)
(* error of the provider carries the model and the attempt that produced   *)
(* it, which tells two errors of the same status apart.                    *)

NoError == [cls |-> "none", status |-> 0, msg |-> "", model |-> "", attempt |-> 0]

ProviderMsg == "provider message"

ApiError(status, mdl, attempt) ==
    [cls |-> "ApiError", status |-> status, msg |-> ProviderMsg,
     model |-> mdl, attempt |-> attempt]

LocalError(cls, msg) ==
    [cls |-> cls, status |-> 0, msg |-> msg, model |-> "", attempt |-> 0]

\* Statuses the provider call is made to fail with; 0 is "no status".
ServerStatuses == {500, 503, 599}
OtherStatuses == {0, 429, 499, 600}

-----------------------------------------------------------------------------
(* retryWithBackoff.                                                        *)

\* Defaults of the two versions (no call site passes its own).
RetriesCurrent == 5
RetriesLegacy == 3
InitialDelay == 1000
JitterCurrent == 200
JitterLegacy == 0

RetriesOf(im) == IF im = "current" THEN RetriesCurrent ELSE RetriesLegacy
JitterOf(im) == IF im = "current" THEN JitterCurrent ELSE JitterLegacy

\* Math.random() * jitter lies in [0, jitter): the least, a middle and the
\* greatest whole value.
JitterSamples(jitter) ==
    IF jitter = 0 THEN {0} ELSE {0, jitter \div 2, jitter - 1}

\* Mutants of IsRetryable.
IsRetryableFrom400(err) == err.status # 0 /\ err.status >= 400 /\ err.status < 600
IsRetryableNot503(err) ==
    err.status # 0 /\ err.status >= 500 /\ err.status < 600 /\ err.status # 503

\* error.status && error.status >= 500 && error.status < 600
IsRetryable(err) == err.status # 0 /\ err.status >= 500 /\ err.status < 600

\* Mutants of WaitTime and NextDelay.
WaitTimeMinus(delay, j) == delay - j
NextDelayLinear(delay) == delay + InitialDelay

\* const waitTime = delay + jitterDelay
WaitTime(delay, j) == delay + j

\* delay *= 2
NextDelay(delay) == delay * 2

\* A response of the provider: kind says what it holds (the JSON text of
\* obj, a text that is no JSON, no text, a free text, audio, a grounded
\* answer); text is response.text, audio the inline data of the first part,
\* chunks the grounding chunks when grounded.
NoResponse == [kind |-> "none", obj |-> [summary |-> Undef, predictions |-> Undef,
               healthScore |-> Undef, recommendations |-> Undef, tips |-> Undef],
               model |-> "", attempt |-> 0,
               text |-> Undef, audio |-> Undef, grounded |-> FALSE, chunks |-> << >>]

\* The state of one invocation.  i, delay and lastError are the code's
\* variables; st is the position (await: fn is in flight; sleep: in the
\* backoff wait); calls, oks and sleeps count the calls of fn, those that
\* resolved and the waits; seen holds the statuses fn failed with and
\* waitTime the length of the latest wait.
RetryState(retries, jitter) ==
    [retries |-> retries, jitter |-> jitter,
     i |-> 0, delay |-> InitialDelay, lastError |-> NoError,
     st |-> "loop", result |-> NoResponse, thrown |-> NoError,
     calls |-> 0, oks |-> 0, sleeps |-> 0, seen |-> {}, waitTime |-> 0]

\* Mutant of RecordError: keeps the first error.
RecordFirstError(r, err) ==
    [r EXCEPT !.lastError = IF @ = NoError THEN err ELSE @,
              !.seen = @ \cup {err.status}]

\* lastError = error
RecordError(r, err) ==
    [r EXCEPT !.lastError = err, !.seen = @ \cup {err.status}]

\* Mutant of RetryLoop: one attempt too many.
RetryLoopInclusive(r) ==
    IF r.i <= r.retries
    THEN [r EXCEPT !.st = "await", !.calls = @ + 1]
    ELSE [r EXCEPT !.st = "threw", !.thrown = r.lastError]

\* The loop head: i < retries ? fn() : throw lastError
RetryLoop(r) ==
    IF r.i < r.retries
    THEN [r EXCEPT !.st = "await", !.calls = @ + 1]
    ELSE [r EXCEPT !.st = "threw", !.thrown = r.lastError]

\* retryWithBackoff(fn) up to its first await.
RetryEnter(retries, jitter) == RetryLoop(RetryState(retries, jitter))

\* Mutant of RetryOnResolve: the value of fn is dropped and the loop goes on.
RetryOnResolveNoReturn(r, resp) ==
    RetryLoop([r EXCEPT !.oks = @ + 1, !.i = @ + 1])

\* return await fn(), fn resolved with resp.
RetryOnResolve(r, resp) ==
    [r EXCEPT !.st = "returned", !.result = resp, !.oks = @ + 1]

\* Mutant of RetryOnReject: no wait after the last attempt of the budget.
RetryOnRejectNoLastWait(r, err, j) ==
    LET r1 == RecordError(r, err)
    IN  IF IsRetryable(err) /\ r.i + 1 < r.retries
        THEN [r1 EXCEPT !.st = "sleep", !.waitTime = WaitTime(r.delay, j),
                        !.sleeps = @ + 1]
        ELSE [r1 EXCEPT !.st = "threw", !.thrown = err]

\* catch (error), fn rejected with err; j is Math.random() * jitter.
RetryOnReject(r, err, j) ==
    LET r1 == RecordError(r, err)
    IN  IF IsRetryable(err)
        THEN [r1 EXCEPT !.st = "sleep", !.waitTime = WaitTime(r.delay, j),
                        !.sleeps = @ + 1]
        ELSE [r1 EXCEPT !.st = "threw", !.thrown = err]

\* The timer of the backoff wait fires: delay *= 2; i++; the loop head.
RetryOnTimer(r) ==
    RetryLoop([r EXCEPT !.delay = NextDelay(@), !.i = @ + 1])

-----------------------------------------------------------------------------
(* The operations.                                                          *)

MsgNoReport == "No report data provided to analyze."
MsgAnalysisMissing == "AI response is missing required fields."
MsgAnalysisParse == "Failed to parse the AI's JSON response. The model may have returned an unexpected format."
MsgAnalysisFailed == "Failed to get a valid analysis from the AI."
MsgPredictMissing == "AI response is missing the 'predictions' field."
MsgPredictParse == "Failed to parse the AI's JSON response for symptoms."
MsgPredictFailed == "Failed to get a valid prediction from the AI."
MsgTipsInvalid == "AI response for tips is in an invalid format."
MsgTipsFailed == "Failed to generate health tips from the AI."
MsgTrimOfUndefined == "Cannot read properties of undefined (reading 'trim')"
MsgMapOfUndefined == "Cannot read properties of undefined (reading 'map')"
MsgChatFailed == "Could not get a response from the assistant."
MsgEnabledOfUndefined == "Cannot read properties of undefined (reading 'enabled')"
MsgNoAudio == "No audio data received from TTS API."
MsgNoLocation == "No location data provided to find hospitals."
MsgHospitalsFailed == "Failed to get hospital data from the AI."

AnalyzeModel == "gemini-2.5-flash"
PrimaryModel == "gemini-1.5-flash"
FallbackModel == "gemini-pro"
LegacyPredictModel == "gemini-2.5-flash"
TipsModel == "gemini-2.5-flash"
ChatModel == "gemini-1.5-flash"
LegacyChatModel == "gemini-2.5-flash"
TtsModel == "gemini-2.5-flash-preview-tts"
MapsModel == "gemini-2.5-flash"

Ops == {"analyze", "predict", "tips", "chat", "hospitals"}
Impls == {"current", "legacy"}

\* What an operation is called with.  fileData.present is "fileData is an
\* object" and voice.present "voiceConfig is an object"; userContext,
\* analysis and hasPredictions say whether the caller gave the user context,
\* analysisData and analysisData.predictions.
NoFile == [present |-> FALSE, data |-> Undef, mimeType |-> Undef]
NoVoice == [present |-> FALSE, enabled |-> FALSE, voice |-> Undef]
NoInput ==
    [reportText |-> Undef, fileData |-> NoFile, symptoms |-> Undef,
     userContext |-> FALSE, analysis |-> FALSE, hasPredictions |-> FALSE,
     message |-> Undef, voice |-> NoVoice,
     latitude |-> Undef, longitude |-> Undef, query |-> Undef]

PdfMime == Str(2)
FileDatas ==
    {NoFile,
     [present |-> TRUE, data |-> Undef, mimeType |-> Undef],
     [present |-> TRUE, data |-> Str(0), mimeType |-> PdfMime],
     [present |-> TRUE, data |-> Str(3), mimeType |-> Undef],
     [present |-> TRUE, data |-> Str(3), mimeType |-> PdfMime]}

VoiceConfigs ==
    {NoVoice,
     [present |-> TRUE, enabled |-> FALSE, voice |-> Undef],
     [present |-> TRUE, enabled |-> TRUE, voice |-> Str(9)]}

Inputs(o) ==
    CASE o = "analyze" ->
           {[NoInput EXCEPT !.reportText = t, !.fileData = f] :
               t \in {Undef, Str(0), Str(1)}, f \in FileDatas}
      [] o = "predict" ->
           {[NoInput EXCEPT !.symptoms = Str(4), !.userContext = c] : c \in BOOLEAN}
      [] o = "tips" ->
           {NoInput} \cup
           {[NoInput EXCEPT !.analysis = TRUE, !.hasPredictions = h] : h \in BOOLEAN}
      [] o = "chat" ->
           {[NoInput EXCEPT !.message = Str(7), !.userContext = c, !.voice = v] :
               c \in BOOLEAN, v \in VoiceConfigs}
      [] OTHER ->
           {[NoInput EXCEPT !.latitude = la, !.longitude = lo, !.query = q] :
               la \in {Undef, Num(0), Num(27)}, lo \in {Undef, Num(0), Num(85)},
               q \in {Undef, Str(0), Str(8)}}

\* What a call sends the provider: the contents, parts (the prompt and an
\* inline file) or one string (the prompt and what the caller's text adds to
\* it), and of the call's config the response schema ("" for none), the
\* voice name and the location of the retrieval config.
NoLatLng == [set |-> FALSE, latitude |-> Undef, longitude |-> Undef]
NoContents ==
    [kind |-> "none", prompt |-> "", text |-> Undef, context |-> FALSE,
     mimeType |-> Undef, data |-> Undef, voice |-> Undef, latLng |-> NoLatLng,
     schema |-> ""]

\* Mutant of AnalyzeContents: the report text goes along with the file.
AnalyzeContentsBoth(in) ==
    IF in.fileData.present /\ Truthy(in.fileData.data)
    THEN [NoContents EXCEPT !.kind = "parts", !.prompt = "analyze",
                            !.schema = "analysisSchema",
                            !.text = in.reportText,
                            !.mimeType = in.fileData.mimeType,
                            !.data = in.fileData.data]
    ELSE IF Truthy(in.reportText)
    THEN [NoContents EXCEPT !.kind = "string", !.prompt = "analyze",
                            !.schema = "analysisSchema",
                            !.text = in.reportText]
    ELSE NoContents

\* analyzeHealthReport: if (fileData && fileData.data) ... else if
\* (reportText) ... else throw; kind "none" is the throw.
AnalyzeContents(in) ==
    IF in.fileData.present /\ Truthy(in.fileData.data)
    THEN [NoContents EXCEPT !.kind = "parts", !.prompt = "analyze",
                            !.schema = "analysisSchema",
                            !.mimeType = in.fileData.mimeType,
                            !.data = in.fileData.data]
    ELSE IF Truthy(in.reportText)
    THEN [NoContents EXCEPT !.kind = "string", !.prompt = "analyze",
                            !.schema = "analysisSchema",
                            !.text = in.reportText]
    ELSE NoContents

\* predictSymptomsFromText: the prompt with the symptoms and, in the current
\* version, the user context when given.
PredictContents(im, in) ==
    [NoContents EXCEPT !.kind = IF im = "current" THEN "parts" ELSE "string",
                       !.prompt = "predict", !.text = in.symptoms,
                       !.schema = "symptomPredictionSchema",
                       !.context = (im = "current" /\ in.userContext)]

\* generateHealthTips: predictions.map(...) throws when analysisData has no
\* predictions (kind "none"); else the prompt.
TipsContents(in) ==
    IF in.analysis /\ in.hasPredictions
    THEN [NoContents EXCEPT !.kind = "string", !.prompt = "tips",
                            !.schema = "healthTipsSchema"]
    ELSE NoContents

\* getChatResponse: chat.sendMessage({ message }), on a chat whose system
\* instruction carries the user context when given.
ChatContents(in) ==
    [NoContents EXCEPT !.kind = "message", !.prompt = "chat",
                       !.text = in.message, !.context = in.userContext]

\* textToSpeech: the parts [{ text: `Say: ${text}` }] and the voice name.
TtsContents(text, voiceName) ==
    [NoContents EXCEPT !.kind = "parts", !.prompt = "say",
                       !.text = text, !.voice = voiceName]

\* findHospitalsNearLocation: if (latitude && longitude) ... else if (query)
\* ... else throw; kind "none" is the throw.
HospitalsContents(in) ==
    IF Truthy(in.latitude) /\ Truthy(in.longitude)
    THEN [NoContents EXCEPT
            !.kind = "string",
            !.prompt = IF Truthy(in.query) THEN "listQuery" ELSE "nearby",
            !.text = IF Truthy(in.query) THEN in.query ELSE Undef,
            !.latLng = [set |-> TRUE, latitude |-> in.latitude,
                        longitude |-> in.longitude]]
    ELSE IF Truthy(in.query)
    THEN [NoContents EXCEPT !.kind = "string", !.prompt = "nearQuery",
                            !.text = in.query]
    ELSE NoContents

\* The object a response text parses to; a field the text leaves out is
\* undefined.
NoObj == NoResponse.obj

Objs(o) ==
    CASE o = "analyze" ->
           {[NoObj EXCEPT !.summary = s, !.healthScore = h,
                          !.predictions = p, !.recommendations = r] :
               s \in {Undef, Str(0), Str(5)}, h \in {Undef, Num(0), Num(70)},
               p \in {Undef, Arr(1)}, r \in {Undef, Arr(3)}}
      [] o = "predict" ->
           {[NoObj EXCEPT !.predictions = p] : p \in {Undef, Arr(0), Arr(3)}}
      [] OTHER ->
           {[NoObj EXCEPT !.tips = t] : t \in {Undef, Arr(0), Arr(3), Str(6)}}

\* A grounding chunk: maps says whether it has a maps entry.
Chunk(maps, title, uri) == [maps |-> maps, title |-> title, uri |-> uri]

ChunkLists ==
    {<< >>,
     <<Chunk(TRUE, Str(1), Str(2))>>,
     <<Chunk(TRUE, Str(1), Str(2)), Chunk(FALSE, Undef, Undef),
       Chunk(TRUE, Str(3), Str(4))>>,
     <<Chunk(TRUE, Undef, Str(2)), Chunk(TRUE, Str(3), Str(4)),
       Chunk(TRUE, Str(5), Str(0))>>}

\* What the provider answers a call of operation o with.  For the operations
\* that ask for JSON: no text at all, a text that is no JSON, or the JSON text
\* of an object.  For speech: a part with inline audio or none.  For chat: a
\* text, maybe empty or missing.  For the hospital search: a text and maybe
\* grounding chunks.
Responses(o, mdl, attempt) ==
    LET r == [NoResponse EXCEPT !.model = mdl, !.attempt = attempt]
    IN  CASE mdl = TtsModel ->
               {[r EXCEPT !.kind = "audio", !.audio = a] : a \in {Undef, Str(9)}}
          [] o = "chat" ->
               {[r EXCEPT !.kind = "text", !.text = t] :
                   t \in {Undef, Str(0), Str(7)}}
          [] o = "hospitals" ->
               {[r EXCEPT !.kind = "grounded", !.text = t] :
                   t \in {Undef, Str(0), Str(8)}}
               \cup {[r EXCEPT !.kind = "grounded", !.text = t,
                               !.grounded = TRUE, !.chunks = cs] :
                       t \in {Undef, Str(0), Str(8)}, cs \in ChunkLists}
          [] OTHER ->
               {[r EXCEPT !.kind = "noText"], [r EXCEPT !.kind = "badJson"]}
               \cup {[r EXCEPT !.kind = "json", !.obj = x] : x \in Objs(o)}

\* JSON.parse(response.text.trim()): the error it throws, NoError if none.
ParseError(resp) ==
    CASE resp.kind = "noText" -> LocalError("TypeError", MsgTrimOfUndefined)
      [] resp.kind = "badJson" -> LocalError("SyntaxError", "Unexpected token")
      [] OTHER -> NoError

\* The check of the parsed object: the error it throws, NoError if none.
ValidationError(o, obj) ==
    CASE o = "analyze" ->
           IF ~Truthy(obj.healthScore) \/ ~Truthy(obj.summary)
           THEN LocalError("Error", MsgAnalysisMissing) ELSE NoError
      [] o = "predict" ->
           IF ~Truthy(obj.predictions)
           THEN LocalError("Error", MsgPredictMissing) ELSE NoError
      [] o = "tips" ->
           IF ~Truthy(obj.tips) \/ obj.tips.t # "array"
           THEN LocalError("Error", MsgTipsInvalid) ELSE NoError
      [] OTHER -> NoError

\* Mutant of Validate: a field that is missing is rejected and then filled
\* in with an empty value.
ValidateFillingIn(o, obj) ==
    [err |-> ValidationError(o, obj),
     obj |-> [f \in DOMAIN obj |->
                IF ValidationError(o, obj) # NoError /\ obj[f] = Undef
                THEN Arr(0) ELSE obj[f]]]

\* The validation step: the error it throws for the parsed object, and
\* the object as the step leaves it (it only reads it).
Validate(o, obj) == [err |-> ValidationError(o, obj), obj |-> obj]

\* Mutant of Catch: the error caught is rethrown as it is.
CatchRethrows(o, e) == e

\* The catch block of an operation: the error its caller gets for e.
Catch(o, e) ==
    CASE o = "analyze" ->
           IF e.cls = "SyntaxError"
           THEN LocalError("Error", MsgAnalysisParse)
           ELSE LocalError("Error", MsgAnalysisFailed)
      [] o = "predict" ->
           IF e.cls = "SyntaxError"
           THEN LocalError("Error", MsgPredictParse)
           ELSE LocalError("Error", MsgPredictFailed)
      [] o = "tips" -> LocalError("Error", MsgTipsFailed)
      [] o = "chat" -> LocalError("Error", MsgChatFailed)
      [] OTHER -> LocalError("Error", MsgHospitalsFailed)

\* Mutant of ShouldFallback: every server error escalates.
ShouldFallbackAny5xx(err) == err.status >= 500 /\ err.status < 600

\* if (error.status === 503)
ShouldFallback(err) == err.status = 503

ContentsOf(o, im, in) ==
    CASE o = "analyze" -> AnalyzeContents(in)
      [] o = "predict" -> PredictContents(im, in)
      [] o = "tips" -> TipsContents(in)
      [] o = "chat" -> ChatContents(in)
      [] OTHER -> HospitalsContents(in)

InputError(o) ==
    CASE o = "analyze" -> LocalError("Error", MsgNoReport)
      [] o = "hospitals" -> LocalError("Error", MsgNoLocation)
      [] OTHER -> LocalError("TypeError", MsgMapOfUndefined)

FirstModel(o, im) ==
    CASE o = "analyze" -> AnalyzeModel
      [] o = "predict" -> IF im = "current" THEN PrimaryModel ELSE LegacyPredictModel
      [] o = "tips" -> TipsModel
      [] o = "chat" -> IF im = "current" THEN ChatModel ELSE LegacyChatModel
      [] OTHER -> MapsModel

\* The fields analysisSchema marks required.
AnalysisRequired == {"summary", "predictions", "healthScore", "recommendations"}

\* Mutant of Returned: a field of the parsed object is lost on the way.
ReturnedWithoutRecommendations(o, obj) ==
    IF o = "tips" THEN [obj |-> NoObj, val |-> obj.tips]
    ELSE [obj |-> [obj EXCEPT !.recommendations = Undef], val |-> Undef]

\* The value a validated object is returned as: return parsedJson, and in
\* generateHealthTips return parsedJson.tips.
Returned(o, obj) ==
    IF o = "tips" THEN [obj |-> NoObj, val |-> obj.tips]
    ELSE [obj |-> obj, val |-> Undef]

\* The summary the hospital search falls back on.
DefaultSummary == Str(99)

\* Mutant of Hospitals: every chunk with a maps entry is listed.
HospitalsUnfiltered(resp) ==
    LET chunks == IF resp.grounded THEN resp.chunks ELSE << >>
        kept == SelectSeq(chunks, LAMBDA c : c.maps)
    IN  [k \in 1..Len(kept) |-> [name |-> kept[k].title, uri |-> kept[k].uri]]

\* The hospitals of an answer: of its grounding chunks, or of none when it
\* has no grounding metadata (chunks || []), those with a maps entry that
\* has a uri and a title, in order, as { name, uri }.
Hospitals(resp) ==
    LET chunks == IF resp.grounded THEN resp.chunks ELSE << >>
        kept == SelectSeq(chunks,
                          LAMBDA c : c.maps /\ Truthy(c.uri) /\ Truthy(c.title))
    IN  [k \in 1..Len(kept) |-> [name |-> kept[k].title, uri |-> kept[k].uri]]

\* What the caller gets: obj or val for the operations that parse JSON, text
\* and audio for chat ({ response, audio }), hospitals and text for the
\* hospital search ({ hospitals, summary }), err when it threw.
NoOutcome ==
    [kind |-> "pending", obj |-> NoObj, val |-> Undef, err |-> NoError,
     text |-> Undef, audio |-> Undef, hospitals |-> << >>]

\* Mutant of TextToSpeech: the catch block rethrows.
TextToSpeechRethrows(r) ==
    IF r.st = "returned" /\ Truthy(r.result.audio)
    THEN [kind |-> "returned", audio |-> r.result.audio, caught |-> NoError]
    ELSE [kind |-> "threw", audio |-> Null,
          caught |-> IF r.st = "threw" THEN r.thrown
                     ELSE LocalError("Error", MsgNoAudio)]

\* textToSpeech once its invocation r of retryWithBackoff has ended: the
\* audio of the response, or null when the invocation threw or the response
\* has no audio (the catch block returns null for whatever it caught).
TextToSpeech(r) ==
    IF r.st = "returned" /\ Truthy(r.result.audio)
    THEN [kind |-> "returned", audio |-> r.result.audio, caught |-> NoError]
    ELSE [kind |-> "returned", audio |-> Null,
          caught |-> IF r.st = "threw" THEN r.thrown
                     ELSE LocalError("Error", MsgNoAudio)]

\* Mutant of WantsAudio: audio for every answer.
WantsAudioAlways(in, text) == TRUE

\* if (voiceConfig.enabled && responseText)
WantsAudio(in, text) == in.voice.enabled /\ Truthy(text)

\* The invocations of retryWithBackoff that are followed side by side.
MaxInvocations == 2
Invs == 1..MaxInvocations

-----------------------------------------------------------------------------
VARIABLES
    impl,         \* the version of the service that runs
    op,           \* the operation, "none" between two operations
    input,        \* what it was called with
    pc,           \* idle, running (inside retryWithBackoff) or done
    rt,           \* the running invocation of retryWithBackoff
    model,        \* the model of that invocation
    contents,     \* the contents the operation built
    calls,        \* the provider calls issued so far, in order
    invocations,  \* the models retryWithBackoff was invoked for, in order
    primaryErr,   \* the error generate(primaryModel) ended with
    origin,       \* the error the operation's catch block caught
    outcome,      \* what the operation returned or threw
    runs,         \* the operations finished
    responseText, \* getChatResponse's responseText, once it has the answer
    route,        \* the AI route whose handler runs, "none" if none does
    responses,    \* the responses that handler has sent, in order
    inv           \* invocations of retryWithBackoff that run side by side

vars == <<impl, op, input, pc, rt, model, contents, calls, invocations,
          primaryErr, origin, outcome, runs, responseText, route, responses,
          inv>>

Init ==
    /\ impl = "current"
    /\ op = "none"
    /\ input = NoInput
    /\ pc = "idle"
    /\ rt = RetryState(RetriesOf("current"), JitterOf("current"))
    /\ model = ""
    /\ contents = NoContents
    /\ calls = << >>
    /\ invocations = << >>
    /\ primaryErr = NoError
    /\ origin = NoError
    /\ outcome = NoOutcome
    /\ runs = 0
    /\ responseText = Undef
    /\ route = "none"
    /\ responses = << >>
    /\ inv = [k \in Invs |-> RetryState(RetriesOf("current"), JitterOf("current"))]

\* Mutant of Attempt: the fallback model is asked without the user context.
AttemptWithoutContext(mdl, c) ==
    [model |-> mdl,
     contents |-> IF mdl = FallbackModel THEN [c EXCEPT !.context = FALSE] ELSE c]

\* The request one call of fn issues: the model, and the contents and
\* config the operation built before its first call.
Attempt(mdl, c) == [model |-> mdl, contents |-> c]

\* The operation throws e inside its try block: the catch block translates it.
Fail(o, e) ==
    /\ origin' = e
    /\ outcome' = [NoOutcome EXCEPT !.kind = "threw", !.err = Catch(o, e)]
    /\ pc' = "done"

\* Mutant of Invoke: the new invocation goes on with the delay of the one
\* before it.
InvokeKeepingDelay(o, im, mdl, c) ==
    LET r == [RetryEnter(RetriesOf(im), JitterOf(im)) EXCEPT !.delay = rt.delay]
    IN  /\ rt' = r
        /\ model' = mdl
        /\ invocations' = Append(invocations, mdl)
        /\ calls' = IF r.st = "await"
                    THEN Append(calls, Attempt(mdl, c))
                    ELSE calls
        /\ IF r.st = "threw"
           THEN Fail(o, r.thrown)
           ELSE pc' = "running" /\ UNCHANGED <<origin, outcome>>

\* retryWithBackoff is invoked for model mdl and runs to its first await.
Invoke(o, im, mdl, c) ==
    LET r == RetryEnter(RetriesOf(im), JitterOf(im))
    IN  /\ rt' = r
        /\ model' = mdl
        /\ invocations' = Append(invocations, mdl)
        /\ calls' = IF r.st = "await"
                    THEN Append(calls, Attempt(mdl, c))
                    ELSE calls
        /\ IF r.st = "threw"
           THEN Fail(o, r.thrown)
           ELSE pc' = "running" /\ UNCHANGED <<origin, outcome>>

\* Operation o of version im is called with in: it builds the contents and
\* invokes retryWithBackoff, or throws.
Call(o, im, in) ==
    LET c == ContentsOf(o, im, in)
    IN  /\ impl' = im
        /\ op' = o
        /\ input' = in
        /\ contents' = c
        /\ IF c.kind = "none"
           THEN /\ Fail(o, InputError(o))
                /\ UNCHANGED <<rt, model, calls, invocations>>
           ELSE Invoke(o, im, FirstModel(o, im), c)
        /\ UNCHANGED <<primaryErr, runs, responseText>>

\* An operation is called directly.
Start ==
    /\ pc = "idle"
    /\ runs < MaxRuns
    /\ \E im \in Impls, o \in Ops :
         \E in \in Inputs(o) : Call(o, im, in)
    /\ UNCHANGED <<route, responses, inv>>

\* retryWithBackoff returned resp: parse, validate, return.  The hospital
\* search returns the kept chunks and the text, or the default summary for
\* a text that is missing or empty.
Settle(resp) ==
    LET pe == ParseError(resp)
        ve == Validate(op, resp.obj).err
        obj == Validate(op, resp.obj).obj
    IN  IF pe # NoError THEN Fail(op, pe)
        ELSE IF ve # NoError THEN Fail(op, ve)
        ELSE /\ outcome' =
                  IF op = "hospitals"
                  THEN [NoOutcome EXCEPT
                          !.kind = "returned",
                          !.hospitals = Hospitals(resp),
                          !.text = IF Truthy(resp.text) THEN resp.text
                                   ELSE DefaultSummary]
                  ELSE [NoOutcome EXCEPT
                          !.kind = "returned",
                          !.obj = Returned(op, obj).obj,
                          !.val = Returned(op, obj).val]
             /\ pc' = "done"
             /\ UNCHANGED origin

\* getChatResponse has the answer of the chat in r.  The legacy version
\* returns its text.  The current one reads voiceConfig.enabled, which throws
\* when voiceConfig is undefined; starts textToSpeech when audio is wanted,
\* which runs to the first await of its retryWithBackoff; else returns the
\* text with audio null.
ChatAnswered(r) ==
    LET text == r.result.text
    IN  /\ responseText' = text
        /\ IF impl = "legacy"
           THEN /\ rt' = r
                /\ outcome' = [NoOutcome EXCEPT !.kind = "returned", !.text = text]
                /\ pc' = "done"
                /\ UNCHANGED <<model, contents, calls, invocations, origin>>
           ELSE IF ~input.voice.present
           THEN /\ rt' = r
                /\ Fail(op, LocalError("TypeError", MsgEnabledOfUndefined))
                /\ UNCHANGED <<model, contents, calls, invocations>>
           ELSE IF WantsAudio(input, text)
           THEN /\ contents' = TtsContents(text, input.voice.voice)
                /\ Invoke(op, impl, TtsModel, TtsContents(text, input.voice.voice))
           ELSE /\ rt' = r
                /\ outcome' = [NoOutcome EXCEPT !.kind = "returned",
                                                !.text = text, !.audio = Null]
                /\ pc' = "done"
                /\ UNCHANGED <<model, contents, calls, invocations, origin>>

\* textToSpeech has ended with invocation r: result.audio = await
\* audioPromise; return result.  A rejection of audioPromise would reach the
\* catch block of getChatResponse.
SpeechEnded(r) ==
    LET tts == TextToSpeech(r)
    IN  /\ rt' = r
        /\ IF tts.kind = "threw"
           THEN Fail(op, tts.caught)
           ELSE /\ outcome' = [NoOutcome EXCEPT !.kind = "returned",
                                                !.text = responseText,
                                                !.audio = tts.audio]
                /\ pc' = "done"
                /\ UNCHANGED origin
        /\ UNCHANGED <<model, contents, calls, invocations, responseText>>

\* The invocation went from rt to r: what the operation does next.  When
\* it threw, predictSymptomsFromText tries the fallback model or rethrows,
\* and the catch block of the operation gets what is thrown.
Step(r) ==
    IF op = "chat" /\ model = TtsModel /\ r.st \in {"returned", "threw"}
    THEN SpeechEnded(r) /\ UNCHANGED primaryErr
    ELSE IF op = "chat" /\ r.st = "returned"
    THEN ChatAnswered(r) /\ UNCHANGED primaryErr
    ELSE IF r.st = "returned"
    THEN /\ rt' = r
         /\ Settle(r.result)
         /\ UNCHANGED <<model, contents, calls, invocations, primaryErr,
                        responseText>>
    ELSE IF r.st = "threw"
    THEN IF op = "predict" /\ impl = "current" /\ model = PrimaryModel
            /\ ShouldFallback(r.thrown)
         THEN /\ primaryErr' = r.thrown
              /\ Invoke(op, impl, FallbackModel, contents)
              /\ UNCHANGED <<contents, responseText>>
         ELSE /\ rt' = r
              /\ primaryErr' = IF op = "predict" /\ impl = "current"
                                  /\ model = PrimaryModel
                               THEN r.thrown ELSE primaryErr
              /\ Fail(op, r.thrown)
              /\ UNCHANGED <<model, contents, calls, invocations, responseText>>
    ELSE /\ rt' = r
         /\ calls' = IF r.calls > rt.calls
                     THEN Append(calls, Attempt(model, contents))
                     ELSE calls
         /\ UNCHANGED <<model, contents, invocations, primaryErr, origin,
                        outcome, pc, responseText>>

\* The provider answers the call in flight.
Resolve ==
    /\ pc = "running"
    /\ rt.st = "await"
    /\ \E resp \in Responses(op, model, rt.calls) :
         Step(RetryOnResolve(rt, resp))
    /\ UNCHANGED <<impl, op, input, runs, route, responses, inv>>

\* The call in flight fails.
Reject ==
    /\ pc = "running"
    /\ rt.st = "await"
    /\ \E s \in ServerStatuses \cup OtherStatuses, j \in JitterSamples(rt.jitter) :
         Step(RetryOnReject(rt, ApiError(s, model, rt.calls), j))
    /\ UNCHANGED <<impl, op, input, runs, route, responses, inv>>

\* The backoff wait is over.
Timer ==
    /\ pc = "running"
    /\ rt.st = "sleep"
    /\ Step(RetryOnTimer(rt))
    /\ UNCHANGED <<impl, op, input, runs, route, responses, inv>>

\* The caller has the outcome; the locals of the operation are gone.
Finish ==
    /\ pc = "done"
    /\ runs < MaxRuns
    /\ runs' = runs + 1
    /\ pc' = "idle"
    /\ op' = "none"
    /\ input' = NoInput
    /\ rt' = RetryState(RetriesOf(impl), JitterOf(impl))
    /\ model' = ""
    /\ contents' = NoContents
    /\ calls' = << >>
    /\ invocations' = << >>
    /\ primaryErr' = NoError
    /\ origin' = NoError
    /\ outcome' = NoOutcome
    /\ responseText' = Undef
    /\ UNCHANGED <<impl, route, responses, inv>>

Next == Start \/ Resolve \/ Reject \/ Timer \/ Finish

Spec == Init /\ [][Next]_vars

-----------------------------------------------------------------------------
(* The AI routes: the handlers that call the operations for a request.      *)

Routes == {"/analyze", "/chat", "/predict-symptoms", "/find-hospitals", "/health-tips"}

OpOf(r) ==
    CASE r = "/analyze" -> "analyze"
      [] r = "/chat" -> "chat"
      [] r = "/predict-symptoms" -> "predict"
      [] r = "/find-hospitals" -> "hospitals"
      [] r = "/health-tips" -> "tips"

\* The request bodies, as the arguments the handler makes of them.  The
\* user context is none: /chat reads it from the database and
\* /predict-symptoms passes none.
Bodies(r) ==
    CASE r = "/chat" ->
           {[NoInput EXCEPT !.message = m, !.voice = v] :
               m \in {Undef, Str(0), Str(7)}, v \in VoiceConfigs}
      [] r = "/predict-symptoms" ->
           {[NoInput EXCEPT !.symptoms = x] : x \in {Undef, Str(0), Str(4)}}
      [] OTHER -> Inputs(OpOf(r))

\* Mutant of PayloadRejected: no request is turned away.
PayloadRejectedNever(r, b) == FALSE

\* The check a handler starts with: TRUE when it answers 400.
PayloadRejected(r, b) ==
    CASE r = "/analyze" -> ~Truthy(b.reportText) /\ ~b.fileData.present
      [] r = "/chat" -> ~Truthy(b.message)
      [] r = "/predict-symptoms" -> ~Truthy(b.symptoms)
      [] r = "/find-hospitals" ->
           (b.latitude = Undef \/ b.longitude = Undef) /\ ~Truthy(b.query)
      [] r = "/health-tips" -> ~b.analysis

RejectedMessage(r) ==
    CASE r = "/analyze" -> "Report text or file is required."
      [] r = "/chat" -> "Message is required."
      [] r = "/predict-symptoms" -> "Symptoms text is required."
      [] r = "/find-hospitals" -> "Either coordinates or a location query is required."
      [] r = "/health-tips" -> "Analysis data is required."

\* The text a handler falls back on for an error without a message; /chat
\* has none.
InternalMessage(r) ==
    CASE r = "/analyze" -> "An internal error occurred during analysis."
      [] r = "/chat" -> ""
      [] r = "/predict-symptoms" -> "An internal error occurred during symptom prediction."
      [] r = "/find-hospitals" -> "An internal error occurred while finding hospitals."
      [] r = "/health-tips" -> "Failed to generate health tips."

\* A response: the status, the error field ("" when the body has none) and
\* the result the body carries.
Rejection(r) == [status |-> 400, error |-> RejectedMessage(r), body |-> NoOutcome]

\* res.json(result), or in the catch block res.status(500).json({ error:
\* error.message || <default> }).
Response(r, out) ==
    IF out.kind = "returned"
    THEN [status |-> 200, error |-> "", body |-> out]
    ELSE [status |-> 500,
          error |-> IF out.err.msg # "" THEN out.err.msg ELSE InternalMessage(r),
          body |-> NoOutcome]

\* A request reaches a handler: it answers 400, or asks the database for the
\* user (/chat), or calls its operation.
Request ==
    /\ pc = "idle"
    /\ runs < MaxRuns
    /\ \E r \in Routes :
         \E b \in Bodies(r) :
            /\ route' = r
            /\ UNCHANGED inv
            /\ IF PayloadRejected(r, b)
               THEN /\ responses' = <<Rejection(r)>>
                    /\ pc' = "responded"
                    /\ input' = b
                    /\ UNCHANGED <<impl, op, rt, model, contents, calls,
                                   invocations, primaryErr, origin, outcome,
                                   runs, responseText>>
               ELSE IF r = "/chat"
               THEN /\ pc' = "db"
                    /\ input' = b
                    /\ UNCHANGED <<impl, op, rt, model, contents, calls,
                                   invocations, primaryErr, origin, outcome,
                                   runs, responseText, responses>>
               ELSE /\ Call(OpOf(r), "current", b)
                    /\ UNCHANGED responses

\* The callback of db.get in /chat: with the user's row or, on an error or
\* for no row, without; it calls getChatResponse.
DbCallback ==
    /\ pc = "db"
    /\ \E c \in BOOLEAN : Call("chat", "current", [input EXCEPT !.userContext = c])
    /\ UNCHANGED <<route, responses, inv>>

\* The await of the handler is over: it sends the result or the error.
Respond ==
    /\ pc = "done"
    /\ route # "none"
    /\ responses' = Append(responses, Response(route, outcome))
    /\ pc' = "responded"
    /\ UNCHANGED <<impl, op, input, rt, model, contents, calls, invocations,
                   primaryErr, origin, outcome, runs, responseText, route, inv>>

\* The handler is over.
Close ==
    /\ pc = "responded"
    /\ runs < MaxRuns
    /\ runs' = runs + 1
    /\ pc' = "idle"
    /\ op' = "none"
    /\ input' = NoInput
    /\ rt' = RetryState(RetriesOf(impl), JitterOf(impl))
    /\ model' = ""
    /\ contents' = NoContents
    /\ calls' = << >>
    /\ invocations' = << >>
    /\ primaryErr' = NoError
    /\ origin' = NoError
    /\ outcome' = NoOutcome
    /\ responseText' = Undef
    /\ route' = "none"
    /\ responses' = << >>
    /\ UNCHANGED <<impl, inv>>

RouteNext ==
    Request \/ DbCallback \/ Resolve \/ Reject \/ Timer \/ Respond \/ Close

RouteSpec == Init /\ [][RouteNext]_vars

-----------------------------------------------------------------------------
(* Invocations of retryWithBackoff side by side: each is at a suspension    *)
(* point (fn in flight, or the backoff wait) while another one steps.       *)

\* Mutant of FrameOf: i, delay and lastError are kept once for the module.
FrameOfModule(k) == 1

\* Where invocation k keeps i, delay and lastError: the parameter delay and
\* the locals lastError and i belong to the activation of the call.
FrameOf(k) == k

\* Invocation k as it sees itself: its position, with the variables of its
\* frame.
View(k) ==
    [inv[k] EXCEPT !.i = inv[FrameOf(k)].i,
                   !.delay = inv[FrameOf(k)].delay,
                   !.lastError = inv[FrameOf(k)].lastError]

\* Invocation k goes on to r, writing the variables to its frame.
Put(k, r) ==
    [j \in Invs |->
        IF j = k THEN r
        ELSE IF j = FrameOf(k)
        THEN [inv[j] EXCEPT !.i = r.i, !.delay = r.delay, !.lastError = r.lastError]
        ELSE inv[j]]

\* The fn of invocation k, to tell its responses and errors from another's.
FnOf(k) == IF k = 1 THEN "fn1" ELSE IF k = 2 THEN "fn2" ELSE "fn3"

\* The statuses fn fails with here: a server error and another one.
FnStatuses == {503, 429}

service == <<impl, op, input, pc, rt, model, contents, calls, invocations,
             primaryErr, origin, outcome, runs, responseText, route, responses>>

\* retryWithBackoff(fn) is called and runs to its first await.
Enter(k) ==
    /\ inv[k].st = "loop"
    /\ \E im \in Impls : inv' = Put(k, RetryEnter(RetriesOf(im), JitterOf(im)))
    /\ UNCHANGED service

\* Mutant of Wake: the timer never fires.
WakeNever(k) ==
    /\ inv[k].st = "sleep"
    /\ FALSE
    /\ UNCHANGED service

\* fn of invocation k resolves or rejects.  Math.random() * jitter is taken
\* at its middle value here.
FnSettle(k) ==
    /\ inv[k].st = "await"
    /\ \/ inv' = Put(k, RetryOnResolve(View(k),
                        [NoResponse EXCEPT !.kind = "text", !.model = FnOf(k),
                                           !.attempt = inv[k].calls]))
       \/ \E s \in FnStatuses :
             inv' = Put(k, RetryOnReject(View(k),
                                         ApiError(s, FnOf(k), inv[k].calls),
                                         inv[k].jitter \div 2))
    /\ UNCHANGED service

\* The backoff wait of invocation k is over.
Wake(k) ==
    /\ inv[k].st = "sleep"
    /\ inv' = Put(k, RetryOnTimer(View(k)))
    /\ UNCHANGED service

RetryNext == \E k \in Invs : Enter(k) \/ FnSettle(k) \/ Wake(k)

RetrySpec == Init /\ [][RetryNext]_vars

\* Every call of fn completes, and every timer fires.
FairRetrySpec ==
    /\ Init /\ [][RetryNext]_vars
    /\ \A k \in Invs : WF_vars(FnSettle(k)) /\ WF_vars(Wake(k))

-----------------------------------------------------------------------------
(* Properties.                                                              *)

RECURSIVE Pow2(_)
Pow2(n) == IF n = 0 THEN 1 ELSE 2 * Pow2(n - 1)

ServerRange == 500..599

\* The provider calls issued against model m.
CallsTo(m) == Cardinality({k \in DOMAIN calls : calls[k].model = m})

\* The invocations of retryWithBackoff for model m.
InvocationsFor(m) == Cardinality({k \in DOMAIN invocations : invocations[k] = m})

\* C1: an attempt that fails with a status outside 500..599 (or with no
\* status) ends the invocation at once with that very error: it is the error
\* of the latest call of fn, so fn is not called again, and no wait follows
\* it (every wait belongs to an earlier attempt).
C1_NonServerErrorNotRetried ==
    (rt.lastError # NoError /\ rt.lastError.status \notin ServerRange) =>
        /\ rt.st = "threw"
        /\ rt.thrown = rt.lastError
        /\ rt.thrown = ApiError(rt.thrown.status, model, rt.calls)
        /\ rt.sleeps = rt.calls - 1
        /\ Len(calls) >= rt.calls

\* C1 witness: a 429 on the first attempt, with the whole budget left.
C1_Witness ==
    /\ rt.st = "threw"
    /\ rt.thrown.status = 429
    /\ rt.calls = 1
    /\ rt.sleeps = 0
    /\ rt.retries = RetriesCurrent

\* C2: a call of fn that succeeds ends the invocation: it returns the value
\* of that call, the (k+1)-th after k server errors (each followed by one
\* wait), k < retries, and throws nothing.
C2_SuccessAfterServerErrors ==
    /\ rt.oks > 0 => rt.st = "returned" /\ rt.oks = 1
    /\ rt.st = "returned" =>
        /\ rt.result.kind # "none"
        /\ rt.result.attempt = rt.calls
        /\ rt.result.model = model
        /\ rt.calls = rt.sleeps + 1
        /\ rt.calls <= rt.retries
        /\ rt.seen \subseteq ServerRange
        /\ rt.thrown = NoError

\* C2 witness: success on the last attempt of the budget, after 503s only.
C2_Witness ==
    /\ rt.st = "returned"
    /\ rt.retries = RetriesCurrent
    /\ rt.calls = RetriesCurrent
    /\ rt.seen = {503}

\* C3: fn is never called more than retries times, and when every attempt
\* failed with a server error the invocation throws, after exactly retries
\* calls, the error of the last one.
C3_ExhaustionThrowsLastError ==
    /\ rt.calls <= rt.retries
    /\ (rt.st = "threw" /\ rt.seen \subseteq ServerRange) =>
        /\ rt.calls = rt.retries
        /\ rt.oks = 0
        /\ rt.thrown.status \in ServerRange
        /\ rt.thrown = ApiError(rt.thrown.status, model, rt.retries)

\* C3 witness: five server errors, the last one a 500 after a 503.
C3_Witness ==
    /\ rt.st = "threw"
    /\ rt.calls = RetriesCurrent
    /\ rt.seen = {500, 503}
    /\ rt.thrown = ApiError(500, model, RetriesCurrent)

\* C4: the base delay is initialDelay * 2^i, and the wait after the n-th
\* server error is initialDelay * 2^(n-1) plus a jitter in 0..jitter, never
\* less than the base delay.
C4_BackoffDelay ==
    /\ rt.delay = InitialDelay * Pow2(rt.i)
    /\ rt.st = "sleep" =>
        /\ rt.sleeps = rt.i + 1
        /\ rt.waitTime - InitialDelay * Pow2(rt.sleeps - 1) \in 0..rt.jitter
        /\ rt.waitTime >= rt.delay

\* C4 witness: the wait after the fourth server error, with jitter added.
C4_Witness ==
    /\ rt.st = "sleep"
    /\ rt.sleeps = 4
    /\ rt.waitTime = 8199

\* C5 as stated: after a primary 503 exactly one call goes to the fallback
\* model.
C5_SingleFallbackCall ==
    primaryErr.status = 503 => CallsTo(FallbackModel) = 1

\* C5 amended: after a primary 503 retryWithBackoff is invoked exactly once
\* for the fallback model; it issues between one and retries calls against
\* the fallback model, each further call after a server error and its wait.
C5_SingleFallbackInvocation ==
    primaryErr.status = 503 =>
        /\ invocations = <<PrimaryModel, FallbackModel>>
        /\ model = FallbackModel
        /\ CallsTo(FallbackModel) = rt.calls
        /\ rt.calls \in 1..RetriesCurrent
        /\ rt.calls <= rt.sleeps + 1

\* C5 witness: the fallback call was retried up to the budget.
C5_Witness ==
    /\ primaryErr.status = 503
    /\ CallsTo(FallbackModel) = RetriesCurrent
    /\ pc = "done"

\* C6: when generate(primaryModel) ends with an error whose status is not
\* 503, the fallback model is not called and the operation fails.
C6_NoFallbackOnOtherErrors ==
    (primaryErr # NoError /\ primaryErr.status # 503) =>
        /\ CallsTo(FallbackModel) = 0
        /\ invocations = <<PrimaryModel>>
        /\ pc = "done"
        /\ outcome.kind = "threw"

\* C6 witness: the primary budget is used up and the last error is a 500.
C6_Witness ==
    /\ primaryErr.status = 500
    /\ CallsTo(PrimaryModel) = RetriesCurrent
    /\ pc = "done"

\* C7: at most one invocation for the fallback model; a fallback call only
\* after retries calls against the primary model; no primary call after a
\* fallback call.
C7_EscalationOnceAfterBudget ==
    /\ InvocationsFor(FallbackModel) <= 1
    /\ CallsTo(FallbackModel) > 0 => CallsTo(PrimaryModel) = RetriesCurrent
    /\ \A k, l \in DOMAIN calls :
          (k < l /\ calls[k].model = FallbackModel) => calls[l].model = FallbackModel

\* C7 witness: both budgets used up, ten calls.
C7_Witness ==
    /\ CallsTo(PrimaryModel) = RetriesCurrent
    /\ CallsTo(FallbackModel) = RetriesCurrent
    /\ Len(calls) = 2 * RetriesCurrent

\* analyzeHealthReport got neither a report text nor file data.
LacksReport(in) ==
    /\ in.reportText \in {Undef, Str(0)}
    /\ ~in.fileData.present \/ in.fileData.data \in {Undef, Str(0)}

\* C8 as stated: without report text and file data analyzeHealthReport
\* throws the input error and no provider call is made.
C8_InputErrorBeforeAnyCall ==
    (op = "analyze" /\ pc = "done" /\ LacksReport(input)) =>
        /\ outcome.kind = "threw"
        /\ outcome.err.msg = MsgNoReport
        /\ Len(calls) = 0
        /\ rt.calls = 0 /\ rt.sleeps = 0

\* The part of C8 that the code keeps: the operation fails, the input error
\* is what its catch block caught, and no call and no wait happened.
C8_NoCallOnMissingReport ==
    (op = "analyze" /\ pc = "done" /\ LacksReport(input)) =>
        /\ outcome.kind = "threw"
        /\ origin.msg = MsgNoReport
        /\ Len(calls) = 0
        /\ rt.calls = 0 /\ rt.sleeps = 0

\* The caller gave file data.
HasFileData(in) == in.fileData.present /\ in.fileData.data \notin {Undef, Str(0)}

\* C9: every call of analyzeHealthReport carries one payload kind: with file
\* data the inline data and its media type and not the report text, without
\* file data the report text and no inline data.
C9_OnePayloadKind ==
    op = "analyze" =>
        \A k \in DOMAIN calls :
            LET c == calls[k].contents
            IN  /\ c.kind \in {"parts", "string"}
                /\ HasFileData(input) =>
                      /\ c.kind = "parts"
                      /\ c.data = input.fileData.data
                      /\ c.mimeType = input.fileData.mimeType
                      /\ c.text = Undef
                /\ ~HasFileData(input) =>
                      /\ c.kind = "string"
                      /\ c.text = input.reportText
                      /\ c.text # Undef
                      /\ c.data = Undef /\ c.mimeType = Undef

\* C9 witness: report text and file data both given, the call re-issued.
C9_Witness ==
    /\ op = "analyze"
    /\ HasFileData(input)
    /\ input.reportText = Str(1)
    /\ Len(calls) >= 2
    /\ calls[2].contents.kind = "parts"

\* The error an operation's caller gets for a transport failure.
TransportFailure(o) == Catch(o, ApiError(503, FirstModel(o, "current"), 1))

\* C10 as stated: a response text that is no JSON makes the operation throw
\* an error that differs from the one of a transport failure.
C10_ParseFailureDistinct ==
    (pc = "done" /\ rt.st = "returned" /\ rt.result.kind = "badJson") =>
        /\ outcome.kind = "threw"
        /\ outcome.err # TransportFailure(op)

\* The part of C10 that the code keeps: analyzeHealthReport and
\* predictSymptomsFromText throw their parse error, and no operation returns
\* a value.
C10_ParseFailureDistinctButTips ==
    (pc = "done" /\ rt.st = "returned" /\ rt.result.kind = "badJson") =>
        /\ outcome.kind = "threw"
        /\ outcome.obj = NoObj /\ outcome.val = Undef
        /\ op # "tips" => outcome.err # TransportFailure(op)

\* The error an operation's caller gets for a response text that is no JSON.
ParseFailure(o) == Catch(o, LocalError("SyntaxError", "Unexpected token"))

\* The response parsed, and the field the claim names is left out: the score
\* of a report analysis, the prediction list of a symptom prediction.
OmitsCheckedField ==
    /\ pc = "done" /\ rt.st = "returned" /\ rt.result.kind = "json"
    /\ \/ op = "analyze" /\ rt.result.obj.healthScore = Undef
       \/ op = "predict" /\ rt.result.obj.predictions = Undef

\* C11 as stated: a parsed response without a required field makes the
\* operation throw an error that differs from its parse-failure error and
\* from its transport-failure error.
C11_ValidationFailureDistinct ==
    OmitsCheckedField =>
        /\ outcome.kind = "threw"
        /\ outcome.err # ParseFailure(op)
        /\ outcome.err # TransportFailure(op)

\* The part of C11 that the code keeps: the operation throws, its catch
\* block caught the validation error, and what the caller gets differs from
\* the parse-failure error.
C11_ValidationFailureThrows ==
    OmitsCheckedField =>
        /\ outcome.kind = "threw"
        /\ origin.msg \in {MsgAnalysisMissing, MsgPredictMissing}
        /\ outcome.err # ParseFailure(op)

\* C12 as stated: a value analyzeHealthReport returns has all four fields
\* the schema marks required.
C12_AllRequiredFieldsReturned ==
    (op = "analyze" /\ pc = "done" /\ outcome.kind = "returned") =>
        \A f \in AnalysisRequired : outcome.obj[f] # Undef

\* The part of C12 that the code keeps: the score and the summary of a
\* returned analysis are there.
C12_ScoreAndSummaryReturned ==
    (op = "analyze" /\ pc = "done" /\ outcome.kind = "returned") =>
        /\ outcome.obj.healthScore # Undef
        /\ outcome.obj.summary # Undef

\* The audio synthesis of a chat turn has ended in failure: its invocation
\* of retryWithBackoff threw, or the response has no audio data.
SynthesisFailed ==
    /\ op = "chat" /\ model = TtsModel /\ pc = "done"
    /\ \/ rt.st = "threw"
       \/ rt.st = "returned" /\ ~Truthy(rt.result.audio)

\* C13: in a chat turn with voice enabled, a failed audio synthesis does not
\* make getChatResponse throw: it returns the text of the assistant with
\* audio null.
C13_SynthesisFailureKeepsText ==
    SynthesisFailed =>
        /\ input.voice.enabled
        /\ outcome.kind = "returned"
        /\ outcome.err = NoError
        /\ outcome.text = responseText
        /\ Truthy(outcome.text)
        /\ outcome.audio = Null

\* C13 witness: the synthesis used up its budget on server errors, after
\* the chat answered on its first call.
C13_Witness ==
    /\ SynthesisFailed
    /\ rt.st = "threw"
    /\ rt.calls = RetriesCurrent
    /\ rt.thrown.status = 503
    /\ Len(calls) = RetriesCurrent + 1
    /\ outcome.text = Str(7)
    /\ outcome.audio = Null

\* The audio synthesis of a chat turn is under way.
Synthesising == op = "chat" /\ model = TtsModel /\ pc = "running"

\* C14 as stated: the text of a chat turn with voice is returned to the
\* caller while the synthesis is still under way.
C14_TextBeforeAudio ==
    Synthesising => outcome.kind = "returned" /\ outcome.text = responseText

\* What the code does instead: once audio is wanted, nothing is returned
\* before the synthesis has ended, and text and audio are returned together.
C14_TextWaitsForAudio ==
    (op = "chat" /\ impl = "current" /\ input.voice.present
        /\ WantsAudio(input, responseText)) =>
        /\ Synthesising => outcome = NoOutcome
        /\ outcome.kind = "returned" =>
              /\ model = TtsModel
              /\ rt.st \in {"returned", "threw"}
              /\ outcome.text = responseText
              /\ outcome.audio = TextToSpeech(rt).audio

\* An operation's own call of the provider ended on an error with a status
\* outside 500..599 (or with none), which carries the provider's message.
ProviderRefused ==
    /\ pc = "done" /\ model # TtsModel
    /\ rt.st = "threw"
    /\ rt.thrown.status \notin ServerRange
    /\ rt.thrown.msg = ProviderMsg

\* The message of the error an operation throws for a failed call.
FailureMessage(o) ==
    CASE o = "analyze" -> MsgAnalysisFailed
      [] o = "predict" -> MsgPredictFailed
      [] o = "tips" -> MsgTipsFailed
      [] o = "chat" -> MsgChatFailed
      [] o = "hospitals" -> MsgHospitalsFailed

\* C16 as stated: the error the operation surfaces for a non-5xx provider
\* error carries the provider's message.
C16_ProviderMessageSurfaced ==
    ProviderRefused =>
        /\ outcome.kind = "threw"
        /\ outcome.err.msg = rt.thrown.msg

\* C16 amended: a non-5xx provider error is surfaced at once, after the one
\* call that failed with it and without a wait, as a new error with the
\* operation's fixed message and no status; the provider's error, message
\* included, only reaches the catch block of the operation.
C16_FixedMessageSurfaced ==
    ProviderRefused =>
        /\ outcome.kind = "threw"
        /\ origin = rt.thrown
        /\ rt.thrown = ApiError(rt.thrown.status, model, rt.calls)
        /\ rt.sleeps = rt.calls - 1
        /\ outcome.err = LocalError("Error", FailureMessage(op))
        /\ outcome.err.msg # ProviderMsg

\* C16 witness: the hospital search is refused with a 429 on its first call.
C16_Witness ==
    /\ ProviderRefused
    /\ op = "hospitals"
    /\ rt.thrown.status = 429
    /\ rt.calls = 1
    /\ origin.msg = ProviderMsg
    /\ outcome.err.msg = MsgHospitalsFailed

\* A schema-validated operation returned a value.
ReturnedValidated ==
    /\ op \in {"analyze", "predict", "tips"}
    /\ pc = "done" /\ outcome.kind = "returned"

\* C17 as stated: the value a schema-validated operation returns is the
\* object the response parsed to.
C17_ReturnsParsedObject ==
    ReturnedValidated => outcome.obj = rt.result.obj

\* C17 amended: analyzeHealthReport and predictSymptomsFromText return the
\* object the response parsed to, every field as emitted;
\* generateHealthTips returns the tips list of that object, unwrapped and
\* otherwise as emitted.
C17_ReturnsParsedObjectOrTips ==
    ReturnedValidated =>
        /\ rt.st = "returned" /\ rt.result.kind = "json"
        /\ op # "tips" => outcome.obj = rt.result.obj /\ outcome.val = Undef
        /\ op = "tips" => outcome.val = rt.result.obj.tips /\ outcome.obj = NoObj

\* C17 witness: generateHealthTips returns the list of a response that
\* came on the second call.
C17_Witness ==
    /\ ReturnedValidated
    /\ op = "tips"
    /\ rt.calls = 2
    /\ rt.result.obj.tips = Arr(3)
    /\ outcome.val = Arr(3)

\* The caller of the hospital search supplied both coordinates.
CoordinatesSupplied(in) == in.latitude # Undef /\ in.longitude # Undef

\* The location configuration of a call is set to the caller's coordinates.
LocatedAt(c, in) ==
    c.latLng = [set |-> TRUE, latitude |-> in.latitude, longitude |-> in.longitude]

\* C18 as stated: findHospitalsNearLocation throws the input error exactly
\* when neither both coordinates nor a query were supplied, and then calls
\* nothing; with both coordinates supplied, 0 included, the call is issued
\* with the location configuration set to them.
C18_CoordinatesIncludingZero ==
    (op = "hospitals" /\ pc # "idle") =>
        /\ origin.msg = MsgNoLocation <=>
              ~CoordinatesSupplied(input) /\ ~Truthy(input.query)
        /\ origin.msg = MsgNoLocation => Len(calls) = 0
        /\ CoordinatesSupplied(input) =>
              /\ Len(calls) >= 1
              /\ \A k \in DOMAIN calls : LocatedAt(calls[k].contents, input)

\* The part of C18 that the code keeps: the input error is thrown, before
\* any call, exactly when no query was given and a coordinate is missing or
\* 0; with both coordinates given and not 0 every call carries them.
C18_CoordinatesButZero ==
    (op = "hospitals" /\ pc # "idle") =>
        /\ origin.msg = MsgNoLocation <=>
              /\ ~(Truthy(input.latitude) /\ Truthy(input.longitude))
              /\ ~Truthy(input.query)
        /\ origin.msg = MsgNoLocation =>
              Len(calls) = 0 /\ pc = "done" /\ outcome.kind = "threw"
        /\ (Truthy(input.latitude) /\ Truthy(input.longitude)) =>
              /\ Len(calls) >= 1
              /\ \A k \in DOMAIN calls : LocatedAt(calls[k].contents, input)

\* The request lacks the payload its route requires.
PayloadMissing ==
    CASE route = "/analyze" ->
           input.reportText \in {Undef, Str(0)} /\ ~input.fileData.present
      [] route = "/chat" -> input.message \in {Undef, Str(0)}
      [] route = "/predict-symptoms" -> input.symptoms \in {Undef, Str(0)}
      [] route = "/find-hospitals" ->
           /\ ~CoordinatesSupplied(input)
           /\ input.query \in {Undef, Str(0)}
      [] route = "/health-tips" -> ~input.analysis
      [] OTHER -> FALSE

\* A response is the 2xx one that carries the operation's result, or a
\* non-2xx one with a string error that is not empty.
WellFormed(resp) ==
    \/ /\ resp.status = 200
       /\ resp.error = ""
       /\ resp.body = outcome
       /\ outcome.kind = "returned"
    \/ /\ resp.status \in {400, 500}
       /\ resp.error # ""
       /\ resp.body = NoOutcome
       /\ outcome.kind # "returned"

AsAlone(k) ==
    LET r == View(k)
        waited == IF r.st = "sleep" THEN r.sleeps - 1 ELSE r.sleeps
    IN  /\ r.i = waited
        /\ r.delay = InitialDelay * Pow2(waited)
        /\ r.calls <= r.retries
        /\ r.st \in {"await", "returned"} => r.calls = r.sleeps + 1
        /\ r.lastError = NoError <=> r.seen = {}
        /\ r.lastError # NoError =>
              /\ r.lastError.model = FnOf(k)
              /\ r.lastError.attempt =
                    IF r.st \in {"sleep", "threw"} THEN r.calls ELSE r.calls - 1
        /\ r.st = "sleep" => r.waitTime - r.delay \in 0..r.jitter
        /\ r.st = "returned" =>
              r.result.model = FnOf(k) /\ r.result.attempt = r.calls
        /\ r.st = "threw" =>
              /\ r.thrown = r.lastError
              /\ r.thrown = ApiError(r.thrown.status, FnOf(k), r.calls)

\* C15: invocations of retryWithBackoff that interleave at their suspension
\* points do not share i, delay or lastError: a step changes what one
\* invocation sees and nothing of what another sees, and each shows what it
\* would had it run alone.
C15_InvocationsIndependent ==
    /\ [](\A k \in Invs : AsAlone(k))
    /\ [][\A j, k \in Invs :
            (j # k /\ View(j)' # View(j)) => View(k)' = View(k)]_vars

\* C15 witness: the first invocation is in its third wait while the second
\* is in its first, each with its own delay and last error.
C15_Witness ==
    /\ View(1).st = "sleep" /\ View(1).sleeps = 3
    /\ View(2).st = "sleep" /\ View(2).sleeps = 1
    /\ View(1).delay = 4000 /\ View(2).delay = InitialDelay
    /\ View(1).lastError.model = "fn1" /\ View(2).lastError.model = "fn2"

\* An invocation has ended as the code lets it: with the value of fn, with
\* an error of fn that is no server error, or with the last error once
\* fn was called retries times.
Terminated(r) ==
    \/ r.st = "returned" /\ r.result.kind # "none"
    \/ r.st = "threw" /\ r.thrown.status \notin ServerRange
    \/ r.st = "threw" /\ r.calls = r.retries /\ r.thrown = r.lastError

\* C20: when every call of fn completes, an invocation that was entered
\* ends, with a result, a non-5xx error or its last error after retries
\* calls, and fn is never called more than retries times.
C20_InvocationTerminates ==
    /\ [](\A k \in Invs : View(k).calls <= View(k).retries)
    /\ [](\A k \in Invs :
            View(k).st \in {"returned", "threw"} => Terminated(View(k)))
    /\ \A k \in Invs :
          (View(k).st \in {"await", "sleep"}) ~> Terminated(View(k))

\* C20 witness: an invocation has ended on its last error after retries
\* calls, each followed by its wait.
C20_Witness ==
    /\ View(2).st = "threw"
    /\ View(2).calls = RetriesCurrent
    /\ View(2).sleeps = RetriesCurrent
    /\ View(2).thrown = ApiError(503, "fn2", RetriesCurrent)

\* The response of the latest call parsed to an object.
Parsed ==
    /\ op \in {"analyze", "predict", "tips"}
    /\ pc = "done" /\ rt.st = "returned" /\ rt.result.kind = "json"

C22_SameRequestEveryAttempt ==
    /\ \A k, l \in DOMAIN calls :
          calls[k].model = calls[l].model => calls[k].contents = calls[l].contents
    /\ op # "chat" =>
          \A k \in DOMAIN calls : calls[k].contents = contents
    /\ op = "predict" =>
          \A k \in DOMAIN calls :
             /\ calls[k].contents = PredictContents(impl, input)
             /\ calls[k].contents.schema = "symptomPredictionSchema"
             /\ calls[k].model \in {PrimaryModel, FallbackModel, LegacyPredictModel}

\* C22 witness: the first fallback call, after five primary calls, for a
\* user with context.
C22_Witness ==
    /\ op = "predict" /\ input.userContext
    /\ Len(calls) = RetriesCurrent + 1
    /\ calls[RetriesCurrent].model = PrimaryModel
    /\ calls[RetriesCurrent + 1].model = FallbackModel
    /\ calls[RetriesCurrent + 1].contents = calls[1].contents
    /\ calls[1].contents.context

\* A report analysis parsed with a score and a summary that is not empty.
ScoreAndSummaryPresent ==
    /\ Parsed /\ op = "analyze"
    /\ rt.result.obj.healthScore # Undef
    /\ Truthy(rt.result.obj.summary)

\* C23 as stated: a parsed analysis with score and summary present is
\* accepted whatever the score, 0 included.
C23_ZeroScoreAccepted ==
    ScoreAndSummaryPresent =>
        /\ outcome.kind = "returned"
        /\ outcome.obj.healthScore = rt.result.obj.healthScore

\* The part of C23 that the code keeps: with a summary that is not empty,
\* the analysis is accepted exactly when the score is present and not 0.
C23_NonZeroScoreAccepted ==
    ScoreAndSummaryPresent =>
        /\ outcome.kind = "returned" <=> rt.result.obj.healthScore # Num(0)
        /\ outcome.kind = "threw" =>
              origin.msg = MsgAnalysisMissing /\ outcome.err.msg = MsgAnalysisFailed

\* generate(primaryModel) of the current predictSymptomsFromText has ended
\* with an error.
PrimaryFailed == op = "predict" /\ impl = "current" /\ primaryErr # NoError

\* C24: the fallback model is tried exactly when the error the primary
\* invocation ended with has status 503, and that error is the one of the
\* last primary call, whatever the calls before it failed with.
C24_EscalationOnLastError ==
    /\ PrimaryFailed =>
          /\ primaryErr = ApiError(primaryErr.status, PrimaryModel,
                                   CallsTo(PrimaryModel))
          /\ InvocationsFor(FallbackModel) = 1 <=> primaryErr.status = 503
          /\ InvocationsFor(FallbackModel) = 0 <=> primaryErr.status # 503
          /\ primaryErr.status # 503 =>
                /\ CallsTo(FallbackModel) = 0
                /\ pc = "done" /\ origin = primaryErr
    /\ (op = "predict" /\ impl = "current" /\ primaryErr = NoError) =>
          InvocationsFor(FallbackModel) = 0

\* C24 witness: the primary calls failed with 503 and, the last one, with
\* 500: no escalation.
C24_Witness ==
    /\ PrimaryFailed
    /\ rt.seen = {500, 503}
    /\ rt.calls = RetriesCurrent
    /\ primaryErr.status = 500
    /\ model = PrimaryModel
    /\ InvocationsFor(FallbackModel) = 0
    /\ pc = "done"

\* C25: one call of predictSymptomsFromText issues at most retries calls
\* against each of its models, at most 2 * retries in all, and the
\* invocation for the fallback model starts with the initial delay: its
\* n-th wait is initialDelay * 2^(n-1) plus jitter, like the primary's.
C25_FallbackBudgetAndDelay ==
    op = "predict" =>
        /\ CallsTo(PrimaryModel) <= rt.retries
        /\ CallsTo(FallbackModel) <= rt.retries
        /\ CallsTo(LegacyPredictModel) <= rt.retries
        /\ Len(calls) <= 2 * rt.retries
        /\ model = FallbackModel =>
              /\ rt.calls = CallsTo(FallbackModel)
              /\ rt.delay = InitialDelay * Pow2(rt.i)
              /\ rt.sleeps = 0 => rt.delay = InitialDelay
              /\ rt.st = "sleep" =>
                    rt.waitTime - InitialDelay * Pow2(rt.sleeps - 1) \in 0..rt.jitter

\* C25 witness: ten calls, five against each model; the last wait of the
\* fallback was the fifth of its own sequence.
C25_Witness ==
    /\ op = "predict" /\ pc = "done"
    /\ model = FallbackModel
    /\ CallsTo(PrimaryModel) = RetriesCurrent
    /\ Len(calls) = 2 * RetriesCurrent
    /\ rt.sleeps = RetriesCurrent
    /\ rt.waitTime = InitialDelay * Pow2(RetriesCurrent - 1)

\* C26: every attempt that fails with a server error is followed by one
\* wait, the last of the budget too: an invocation that is neither waiting
\* nor thrown has waited once per server error so far, and one that threw
\* on exhaustion has waited retries times, the last time for at least
\* initialDelay * 2^(retries-1), with no call of fn after that wait.
C26_WaitAfterEveryServerError ==
    /\ rt.sleeps <= rt.calls
    /\ rt.st = "sleep" => rt.sleeps = rt.calls /\ rt.lastError.status \in ServerRange
    /\ (rt.st = "threw" /\ rt.thrown.status \in ServerRange) =>
          /\ rt.calls = rt.retries
          /\ rt.sleeps = rt.retries
          /\ rt.waitTime >= InitialDelay * Pow2(rt.retries - 1)
          /\ rt.waitTime <= InitialDelay * Pow2(rt.retries - 1) + rt.jitter
          /\ rt.thrown = ApiError(rt.thrown.status, model, rt.calls)
          /\ CallsTo(model) = rt.retries

\* C26 witness: the legacy version threw after three calls and three
\* waits, the last one of 4000 ms.
C26_Witness ==
    /\ impl = "legacy"
    /\ rt.st = "threw" /\ rt.thrown.status = 503
    /\ rt.calls = RetriesLegacy /\ rt.sleeps = RetriesLegacy
    /\ rt.waitTime = InitialDelay * Pow2(RetriesLegacy - 1)
    /\ pc = "done"

\* C27: a chat turn invokes the synthesis at most once, through one
\* invocation of retryWithBackoff, and only with voice enabled and after
\* the chat answered with a text that is not empty: every synthesis call
\* comes after every chat call and says that text.  A turn whose chat call
\* failed calls no synthesis.
C27_SynthesisAfterText ==
    op = "chat" =>
        /\ InvocationsFor(TtsModel) <= 1
        /\ CallsTo(TtsModel) <= RetriesCurrent
        /\ CallsTo(TtsModel) > 0 => InvocationsFor(TtsModel) = 1
        /\ InvocationsFor(TtsModel) = 1 =>
              /\ impl = "current"
              /\ input.voice.present /\ input.voice.enabled
              /\ Truthy(responseText)
              /\ invocations = <<ChatModel, TtsModel>>
              /\ \A k, l \in DOMAIN calls :
                    (calls[k].model = ChatModel /\ calls[l].model = TtsModel) =>
                        k < l
              /\ \A l \in DOMAIN calls :
                    calls[l].model = TtsModel =>
                        /\ calls[l].contents.text = responseText
                        /\ calls[l].contents.voice = input.voice.voice
        /\ (model # TtsModel /\ rt.st = "threw") => CallsTo(TtsModel) = 0

\* C27 witness: the chat answered on its second call, and the synthesis
\* is at its second call.
C27_Witness ==
    /\ op = "chat"
    /\ Len(calls) = 4
    /\ calls[2].model = ChatModel
    /\ calls[3].model = TtsModel
    /\ calls[4].model = TtsModel
    /\ responseText = Str(7)
    /\ rt.st = "await"

\* The chat call of a /chat request has succeeded and the handler's await
\* is over.
ChatTextReceived ==
    /\ route = "/chat" /\ op = "chat"
    /\ pc \in {"done", "responded"}
    /\ model = ChatModel /\ rt.st = "returned"

\* C28 as stated: a /chat request without voiceConfig whose chat call
\* succeeds gets the text with empty audio.
C28_TextWithoutVoiceConfig ==
    (ChatTextReceived /\ ~input.voice.present) =>
        /\ outcome.kind = "returned"
        /\ outcome.text = responseText
        /\ outcome.audio = Null
        /\ pc = "responded" => responses[1].status = 200

\* What the code does: without voiceConfig the turn fails on reading
\* voiceConfig.enabled, no synthesis is called, and the request is
\* answered 500 with the chat's fixed message; with a voiceConfig that is
\* not enabled the text is returned with audio null.
C28_TextNeedsVoiceConfig ==
    /\ (ChatTextReceived /\ ~input.voice.present) =>
          /\ outcome.kind = "threw"
          /\ origin = LocalError("TypeError", MsgEnabledOfUndefined)
          /\ outcome.err.msg = MsgChatFailed
          /\ CallsTo(TtsModel) = 0
          /\ pc = "responded" =>
                responses[1].status = 500 /\ responses[1].error = MsgChatFailed
    /\ (ChatTextReceived /\ input.voice.present /\ ~input.voice.enabled) =>
          /\ outcome.kind = "returned"
          /\ outcome.text = responseText
          /\ outcome.audio = Null

\* The primary model of the current predictSymptomsFromText answered, and
\* the answer is no JSON or lacks the predictions.
PrimaryAnswerRejected ==
    /\ op = "predict" /\ impl = "current" /\ pc = "done"
    /\ model = PrimaryModel /\ rt.st = "returned"
    /\ \/ rt.result.kind = "badJson"
       \/ rt.result.kind = "json" /\ rt.result.obj.predictions = Undef

\* C29 as stated: an answer of the primary model that does not parse or
\* lacks the predictions never leads to the fallback, and the operation
\* fails with the parse error or the validation error.
C29_BadAnswerFailsAsSuch ==
    PrimaryAnswerRejected =>
        /\ InvocationsFor(FallbackModel) = 0
        /\ CallsTo(FallbackModel) = 0
        /\ outcome.kind = "threw"
        /\ outcome.err.msg =
              IF rt.result.kind = "badJson" THEN MsgPredictParse
              ELSE MsgPredictMissing

\* The part of C29 that the code keeps: the fallback is not tried, the
\* operation throws, and its catch block caught the parse error or the
\* validation error; the caller gets the parse-failure message for the
\* first and the general failure message for the second.
C29_NoFallbackOnBadAnswer ==
    PrimaryAnswerRejected =>
        /\ InvocationsFor(FallbackModel) = 0
        /\ CallsTo(FallbackModel) = 0
        /\ primaryErr = NoError
        /\ outcome.kind = "threw"
        /\ origin = IF rt.result.kind = "badJson"
                    THEN LocalError("SyntaxError", "Unexpected token")
                    ELSE LocalError("Error", MsgPredictMissing)
        /\ outcome.err.msg =
              IF rt.result.kind = "badJson" THEN MsgPredictParse
              ELSE MsgPredictFailed

\* The (name, uri) pairs of a chunk list: one for each chunk with a maps
\* entry whose title and uri are there and not empty, in the list's order.
RECURSIVE Pairs(_)
Pairs(cs) ==
    IF cs = << >> THEN << >>
    ELSE LET c == Head(cs)
         IN  (IF c.maps /\ c.title \notin {Undef, Null, Str(0)}
                        /\ c.uri \notin {Undef, Null, Str(0)}
              THEN <<[name |-> c.title, uri |-> c.uri]>>
              ELSE << >>) \o Pairs(Tail(cs))

\* C30: the hospital search returns the pairs of the answer's chunks, the
\* empty list for an answer without grounding metadata, and as summary the
\* answer's text or, when that is missing or empty, the default summary.
C30_HospitalsAsGrounded ==
    (op = "hospitals" /\ pc = "done" /\ rt.st = "returned") =>
        /\ outcome.kind = "returned"
        /\ outcome.hospitals = Pairs(rt.result.chunks)
        /\ ~rt.result.grounded => outcome.hospitals = << >>
        /\ rt.result.text \in {Undef, Str(0)} => outcome.text = DefaultSummary
        /\ rt.result.text \notin {Undef, Str(0)} => outcome.text = rt.result.text

\* C30 witness: of three chunks, one without title and one with an empty
\* uri, the one between them is returned, with the default summary for an
\* empty text.
C30_Witness ==
    /\ op = "hospitals" /\ pc = "done" /\ rt.st = "returned"
    /\ Len(rt.result.chunks) = 3
    /\ rt.result.text = Str(0)
    /\ outcome.hospitals = <<[name |-> Str(3), uri |-> Str(4)]>>
    /\ outcome.text = DefaultSummary
====
